---- MODULE Spec2Model ----
(***************************************************************************)
(* BlackBoard (src/BlackBoard.js): a section/key/value store with an      *)
(* in-memory tier (plain object, or an LRU cache once useMongo has run),   *)
(* an optional MongoDB backend fed through a write queue, and a JSON       *)
(* snapshot file saved on shutdown.                                        *)
(*                                                                         *)
(* Every async method is cut at its awaits: the synchronous part up to the *)
(* first await is the "...Call" action, and every await that suspends on   *)
(* I/O has one action per outcome of the awaited promise.  A suspended     *)
(* method is a record in tasks.                                            *)
(***************************************************************************)
EXTENDS Integers, Sequences, FiniteSets, TLC

(***************************************************************************)
(* Bounds of the model and inputs of the environments.                     *)
(***************************************************************************)
MaxCalls == 3            \* API calls issued in Spec
MaxBatchCalls == 12      \* calls issued in BatchSpec: useMongo, then sets
MaxDownCalls == 3        \* API calls issued before the signals in DownSpec
MaxSignals == 2          \* signals delivered to the process
MaxReloads == 2          \* reloads of the watcher suspended at the same time
MaxWatchCalls == 3       \* API calls issued in WatchSpec
MaxWatchSignals == 1     \* signals delivered in WatchSpec
MaxEdits == 1            \* writes to the file made by other writers
MaxCacheCalls == 5       \* API calls issued in CacheSpec
CacheTtl == 2            \* the ttl option of the LRU, in ticks
MaxTime == 3             \* ticks of the clock
MaxExpiryCalls == 4      \* API calls issued in ExpirySpec
MaxPlainCalls == 3       \* API calls issued in PlainSpec
MaxRemoveCalls == 12     \* API calls issued in RemoveSpec
MaxValueCalls == 3       \* API calls issued in ValueSpec
MaxRaceCalls == 4        \* API calls issued in RaceSpec
MaxReloadCalls == 3      \* API calls issued in ReloadSpec
MaxReloadEdits == 2      \* writes to the file made by other writers in ReloadSpec

\* Names are sequences of characters, so that the joins and splits of the
\* code can be computed.
Sections == { <<"u">>, <<"u", ".", "x">> }
Keys == { <<"k">>, <<"x", ".", "k">> }
Values == { "v1", "v2" }
Undefined == "undefined"
\* The values 0, false, '' and null
Falsy == { "0", "false", "", "null" }
NoName == <<>>

(***************************************************************************)
(* String helpers of the code.                                             *)
(***************************************************************************)
\* `${section}.${key}`
cacheKey(section, key) == section \o <<".">> \o key

\* key.startsWith(`${section}.`)
startsWith(str, prefix) ==
  /\ Len(str) >= Len(prefix)
  /\ SubSeq(str, 1, Len(prefix)) = prefix

\* The first segment of str.split('.')
RECURSIVE firstSegment(_)
firstSegment(str) ==
  IF str = <<>> \/ Head(str) = "." THEN <<>>
  ELSE <<Head(str)>> \o firstSegment(Tail(str))

\* What follows the first '.' of str (<<>> when there is none)
RECURSIVE afterFirstDot(_)
afterFirstDot(str) ==
  IF str = <<>> THEN <<>>
  ELSE IF Head(str) = "." THEN Tail(str)
  ELSE afterFirstDot(Tail(str))

\* const [section, subKey] = key.split('.')
splitSection(ck) == firstSegment(ck)
splitSubKey(ck) == firstSegment(afterFirstDot(ck))

(***************************************************************************)
(* The plain-object store: section -> (key -> value).                      *)
(***************************************************************************)
EmptyObj == [x \in {} |-> Undefined]

\* obj[name] = val
ObjPut(obj, name, val) ==
  [x \in DOMAIN obj \cup {name} |-> IF x = name THEN val ELSE obj[x]]

\* delete obj[name]
ObjDel(obj, name) == [x \in DOMAIN obj \ {name} |-> obj[x]]

\* Object.keys(this.store[section] || {})
KeysIn(st, section) == IF section \in DOMAIN st THEN DOMAIN st[section] ELSE {}

\* this.store[section]?.[key]
PlainGet(st, section, key) ==
  IF section \in DOMAIN st /\ key \in DOMAIN st[section]
  THEN st[section][key] ELSE Undefined

\* PlainSet that starts the section anew at every set
PlainSetAlone(st, section, key, value) ==
  ObjPut(st, section, ObjPut(EmptyObj, key, value))

\* this.store[section] = this.store[section] || {}; this.store[section][key] = value
PlainSet(st, section, key, value) ==
  ObjPut(st, section,
         ObjPut(IF section \in DOMAIN st THEN st[section] ELSE EmptyObj, key, value))

\* PlainRemoveKey without the removal of a section left with no key
PlainRemoveKeyOnly(st, section, key) ==
  IF section \in DOMAIN st
  THEN ObjPut(st, section, ObjDel(st[section], key))
  ELSE st

\* removeKey on the plain object
PlainRemoveKey(st, section, key) ==
  IF section \in DOMAIN st
  THEN LET rest == ObjDel(st[section], key)
       IN IF DOMAIN rest = {} THEN ObjDel(st, section) ELSE ObjPut(st, section, rest)
  ELSE st

(***************************************************************************)
(* The LRU store: entries [key, value], most recently used first.          *)
(***************************************************************************)
RECURSIVE SeqWithout(_, _)
SeqWithout(c, ck) ==
  IF c = <<>> THEN <<>>
  ELSE IF Head(c).key = ck THEN SeqWithout(Tail(c), ck)
  ELSE <<Head(c)>> \o SeqWithout(Tail(c), ck)

LRUHas(c, ck) == \E i \in 1..Len(c) : c[i].key = ck

\* value returned by store.get(cacheKey)
LRUGet(c, ck) ==
  IF LRUHas(c, ck) THEN c[CHOOSE i \in 1..Len(c) : c[i].key = ck].value
  ELSE Undefined

\* LRUTouch without the refresh of the recency
LRUTouchStale(c, ck) == c

\* the cache after store.get(cacheKey): a hit becomes the most recent entry
LRUTouch(c, ck) ==
  IF LRUHas(c, ck)
  THEN <<[key |-> ck, value |-> LRUGet(c, ck)]>> \o SeqWithout(c, ck)
  ELSE c

\* store.set(cacheKey, value) with capacity max: the least recent entries go
LRUSet(c, max, ck, value) ==
  LET put == <<[key |-> ck, value |-> value]>> \o SeqWithout(c, ck)
  IN IF Len(put) > max THEN SubSeq(put, 1, max) ELSE put

\* LRUDelete that deletes nothing
LRUDeleteNone(c, ck) == c

\* store.delete(cacheKey)
LRUDelete(c, ck) == SeqWithout(c, ck)

\* removeSection on the LRU: every entry whose key starts with `${section}.`
RECURSIVE LRUDeletePrefix(_, _)
LRUDeletePrefix(c, prefix) ==
  IF c = <<>> THEN <<>>
  ELSE IF startsWith(Head(c).key, prefix) THEN LRUDeletePrefix(Tail(c), prefix)
  ELSE <<Head(c)>> \o LRUDeletePrefix(Tail(c), prefix)

(***************************************************************************)
(* The MongoDB collection: one document per (section, key), found by the   *)
(* filter { section, key }.                                                *)
(***************************************************************************)
\* updateOne(filter, { $set: { value } }, upsert) for each op, in order
RECURSIVE ApplyBulk(_, _)
ApplyBulk(coll, ops) ==
  IF ops = <<>> THEN coll
  ELSE ApplyBulk(ObjPut(coll, <<Head(ops).section, Head(ops).key>>, Head(ops).value),
                 Tail(ops))

\* FindOne that finds no document
FindNone(coll, section, key) == Undefined

\* findOne({ section, key }): result.value, or Undefined for no document
FindOne(coll, section, key) ==
  IF <<section, key>> \in DOMAIN coll THEN coll[<<section, key>>] ELSE Undefined

\* deleteMany({ section })
DeleteMany(coll, section) ==
  [p \in {q \in DOMAIN coll : q[1] # section} |-> coll[p]]

(***************************************************************************)
(* Snapshot file contents.                                                 *)
(***************************************************************************)
FileAbsent == [kind |-> "absent", data |-> EmptyObj]
FileCorrupt == [kind |-> "corrupt", data |-> EmptyObj]
FileTruncated == [kind |-> "truncated", data |-> EmptyObj]
\* readFile rejects with an error other than ENOENT (EACCES, EISDIR)
FileUnreadable == [kind |-> "unreadable", data |-> EmptyObj]
FileJson(obj) == [kind |-> "json", data |-> obj]
\* The head of a shorter text written over the longer text of longer
FileMixed(longer) == [kind |-> "mixed", data |-> longer]

InitFiles ==
  { FileAbsent, FileCorrupt, FileJson(EmptyObj),
    FileJson(PlainSet(EmptyObj, <<"u">>, <<"k">>, "v2")) }

\* jsonData of saveStore in LRU mode: forEach visits the most recent entry
\* first, and a later entry with the same [section, subKey] overwrites
RECURSIVE LRUToJson(_, _)
LRUToJson(c, acc) ==
  IF c = <<>> THEN acc
  ELSE LRUToJson(Tail(c),
                 PlainSet(acc, splitSection(Head(c).key), splitSubKey(Head(c).key),
                          Head(c).value))

\* jsonData of saveStore
jsonData(st, cached) == IF cached THEN LRUToJson(st, EmptyObj) ELSE st

\* Number of characters of JSON.stringify(obj, null, 2).  A line of a key is
\* four spaces, "key", a colon and a space, and "value" (values have two
\* characters); lines are joined by a comma and a newline.
RECURSIVE keysLen(_)
keysLen(keys) ==
  IF DOMAIN keys = {} THEN 0
  ELSE LET key == CHOOSE x \in DOMAIN keys : TRUE
       IN Len(key) + 12 + (IF Cardinality(DOMAIN keys) > 1 THEN 2 ELSE 0)
            + keysLen(ObjDel(keys, key))

RECURSIVE sectionsLen(_)
sectionsLen(obj) ==
  IF DOMAIN obj = {} THEN 0
  ELSE LET section == CHOOSE x \in DOMAIN obj : TRUE
           body == IF DOMAIN obj[section] = {} THEN 0
                   ELSE keysLen(obj[section]) + 4
       IN Len(section) + 8 + body + (IF Cardinality(DOMAIN obj) > 1 THEN 2 ELSE 0)
            + sectionsLen(ObjDel(obj, section))

jsonLen(obj) == IF DOMAIN obj = {} THEN 2 ELSE 4 + sectionsLen(obj)

\* The file after a writeFile has written text at offset 0 through the
\* descriptor it opened earlier.  The open has truncated the file, so it
\* holds more than nothing only when another writer has written since; then
\* what lies beyond the new text stays.
landed(f, obj) ==
  IF f.kind = "truncated" THEN { FileJson(obj) }
  ELSE IF f.kind \in {"json", "mixed"}
  THEN IF jsonLen(obj) >= jsonLen(f.data) THEN { FileJson(obj) }
       ELSE { FileMixed(f.data) }
  ELSE { FileJson(obj), FileMixed(obj) }

(***************************************************************************)
(* State.                                                                  *)
(***************************************************************************)
VARIABLES
  store,            \* this.store: the plain object, or the LRU entries
  useCache,         \* this.useCache
  lruMax,           \* the max option of the LRU
  mongoClient,      \* this.mongoClient is not null
  mongoCollection,  \* this.mongoCollection is not null
  mongoWriteQueue,  \* this.mongoWriteQueue; id is the number of the set call
  db,               \* documents of the MongoDB collection
  file,             \* PersistentState.json
  tasks,            \* suspended async methods, by call number
  handlers,         \* setupShutdown has registered the signal handlers
  exited,           \* the process has ended
  exported,         \* the module has loaded: callers hold the instance
  nCalls,           \* calls issued so far
  nSignals,         \* signals delivered so far
  enqueued,         \* history: ids of the writes pushed on the queue
  sent,             \* history: ids of the writes of a bulkWrite that succeeded
  backendFailed,    \* history: a backend call has failed
  issued,           \* history: number of bulkWrite requests issued
  events,           \* change notifications of the watcher not yet delivered
  nEdits,           \* writes to the file made by other writers so far
  recency,          \* history: the cached keys of the LRU, last used first
  written,          \* history: (section, key) -> value cached by set
  now,              \* the clock of the LRU, in ticks
  starts,           \* the LRU's start of the age of each cached key
  lastUsed,         \* history: time of the last set or get hit of each cached key
  removed,          \* history: <<section>> and <<section, key>> of the removals
                    \* that have returned, with no set issued on them since
  ev                \* history: the last step taken

vars == << store, useCache, lruMax, mongoClient, mongoCollection, mongoWriteQueue,
           db, file, tasks, handlers, exited, exported, nCalls, nSignals, enqueued,
           sent, backendFailed, issued, events, nEdits, recency, written, now,
           starts, lastUsed, removed, ev >>

FlushThreshold == 10
CacheCapacity == 2

\* lru-cache, isStale: the age of the entry is more than the ttl option
Stale(ck) == ck \in DOMAIN starts /\ now - starts[ck] > CacheTtl

\* What saveStore reads: the plain object, or the entries the LRU's forEach
\* visits, which are those that are not stale
Visited ==
  IF useCache THEN SelectSeq(store, LAMBDA e : ~Stale(e.key)) ELSE store

NoRT == [v |-> Undefined, cc |-> FALSE]

Task(kind, pc, s, k, v, cc) ==
  [kind |-> kind, pc |-> pc, s |-> s, k |-> k, v |-> v, cc |-> cc,
   ops |-> <<>>, data |-> EmptyObj, clean |-> TRUE, rt |-> NoRT, at |-> 0,
   saved |-> "no", snap |-> EmptyObj]

Ev(type, id, s, k, v, cc) ==
  [type |-> type, id |-> id, s |-> s, k |-> k, v |-> v, cc |-> cc,
   res |-> Undefined, flush |-> "none", ops |-> <<>>, clean |-> TRUE, rt |-> NoRT,
   queue |-> <<>>, saved |-> "no", snap |-> EmptyObj]

\* History of the LRU: the keys cached in c, in the order of their last use
\* (set, get hit, fill from the backend), ck having been used now.
Touched(rec, c, ck) ==
  LET others == SelectSeq(rec, LAMBDA x : x # ck /\ LRUHas(c, x))
  IN IF LRUHas(c, ck) THEN <<ck>> \o others ELSE others

\* The keys of the LRU entries
KeysOf(c) == { c[i].key : i \in 1..Len(c) }

\* The times kept for the keys cached in c, after a step at time t in which
\* the keys of touched were set (starts) or set or hit (lastUsed)
TimesAfter(times, c, touched, t) ==
  [ck \in KeysOf(c) |-> IF ck \in touched \/ ck \notin DOMAIN times THEN t
                        ELSE times[ck]]

\* The cache keys of the entries of a file
FileKeys(json) ==
  UNION { { cacheKey(section, key) : key \in DOMAIN json[section] } :
            section \in DOMAIN json }

\* The keys of the LRU entries, in the order of the entries
LRUKeys(c) == [i \in 1..Len(c) |-> c[i].key]

\* History of set: the pairs of one section are forgotten
WrittenWithout(w, section) ==
  [p \in {q \in DOMAIN w : q[1] # section} |-> w[p]]

\* Another step has changed the store while these methods were suspended.
Disturb(ts) == [i \in DOMAIN ts |-> [ts[i] EXCEPT !.clean = FALSE]]

InitWith(f, docs) ==
  /\ store = EmptyObj
  /\ useCache = FALSE
  /\ lruMax = 0
  /\ mongoClient = FALSE
  /\ mongoCollection = FALSE
  /\ mongoWriteQueue = <<>>
  /\ db = docs
  /\ file = f
  \* loadStore() is suspended at readFile
  /\ tasks = ObjPut(EmptyObj, 0, Task("load", "readFile", NoName, NoName, Undefined, FALSE))
  /\ handlers = FALSE
  \* watch() throws ENOENT when the file is absent: the constructor throws
  \* and the module does not load; the importer ends the process or goes on
  \* without the instance
  /\ exported = (f.kind # "absent")
  /\ exited \in (IF f.kind = "absent" THEN BOOLEAN ELSE {FALSE})
  /\ nCalls = 0
  /\ nSignals = 0
  /\ enqueued = {}
  /\ sent = {}
  /\ backendFailed = FALSE
  /\ issued = 0
  /\ events = {}
  /\ nEdits = 0
  /\ recency = <<>>
  /\ written = EmptyObj
  /\ now = 0
  /\ starts = EmptyObj
  /\ lastUsed = EmptyObj
  /\ removed = {}
  /\ ev = Ev("init", 0, NoName, NoName, Undefined, FALSE)

\* Documents left in the collection by earlier runs
InitDocs == { EmptyObj, ObjPut(EmptyObj, << <<"u">>, <<"k">> >>, "v2") }

Init == \E f \in InitFiles, docs \in InitDocs : InitWith(f, docs)

(***************************************************************************)
(* get                                                                     *)
(***************************************************************************)
\* line 42: the cached value
cachedValue(st, cached, section, key) ==
  IF cached THEN LRUGet(st, cacheKey(section, key)) ELSE PlainGet(st, section, key)

\* cachePut with section and key exchanged
cachePutSwapped(st, cached, max, section, key, value) ==
  IF cached THEN LRUSet(st, max, cacheKey(key, section), value)
  ELSE PlainSet(st, key, section, value)

\* isHit with a test for a truthy value
isHitTruthy(value) == value \notin ({Undefined} \cup Falsy)

\* line 44: cachedValue !== undefined
isHit(value) == value # Undefined

\* lines 52-57 and 67-74: the store after caching value under (section, key)
cachePut(st, cached, max, section, key, value) ==
  IF cached THEN LRUSet(st, max, cacheKey(section, key), value)
  ELSE PlainSet(st, section, key, value)

\* History: this get directly follows a completed set of the same (section,
\* key): the set returned in the step before this one and nothing else ran
\* since the set was called.  Then its value and its canCache, else NoRT.
RoundTripOf(section, key) ==
  IF /\ ev.type = "setDone" /\ ev.clean
     /\ ev.s = section /\ ev.k = key
  THEN [v |-> ev.v, cc |-> ev.cc] ELSE NoRT

GetCall(section, key) ==
  LET id == nCalls + 1
      ck == cacheKey(section, key)
      \* store.get of a stale entry deletes it and returns undefined
      stale == useCache /\ Stale(ck)
      hit == IF stale THEN Undefined ELSE cachedValue(store, useCache, section, key)
  IN
  /\ ~exited /\ exported
  /\ nCalls' = id
  /\ store' = IF ~useCache THEN store
              ELSE IF stale THEN LRUDelete(store, ck)
              ELSE LRUTouch(store, ck)
  /\ lastUsed' = IF useCache
                 THEN TimesAfter(lastUsed, store', IF isHit(hit) THEN {ck} ELSE {}, now)
                 ELSE lastUsed
  /\ IF isHit(hit)
     THEN /\ tasks' = tasks
          /\ ev' = [Ev("getDone", id, section, key, Undefined, FALSE)
                      EXCEPT !.res = hit, !.rt = RoundTripOf(section, key)]
     ELSE IF mongoCollection
     THEN /\ tasks' = ObjPut(tasks, id,
                        [Task("get", "findOne", section, key, Undefined, FALSE)
                           EXCEPT !.rt = RoundTripOf(section, key)])
          /\ ev' = Ev("getCall", id, section, key, Undefined, FALSE)
     ELSE /\ tasks' = tasks
          /\ ev' = [Ev("getDone", id, section, key, Undefined, FALSE)
                      EXCEPT !.rt = RoundTripOf(section, key)]
  /\ recency' = IF useCache THEN Touched(recency, store', cacheKey(section, key))
                ELSE recency
  /\ starts' = IF useCache THEN TimesAfter(starts, store', {}, now) ELSE starts
  /\ UNCHANGED << removed, now,
                  events, nEdits, written,
                  issued, useCache, lruMax, mongoClient, mongoCollection, mongoWriteQueue,
                  db, file, handlers, exited, exported, nSignals, enqueued, sent, backendFailed >>

\* findOne resolves
FindOneReturns(id) ==
  /\ ~exited
  /\ id \in DOMAIN tasks
  /\ tasks[id].kind = "get" /\ tasks[id].pc = "findOne"
  /\ LET t == tasks[id]
         value == FindOne(db, t.s, t.k)
     IN /\ IF value # Undefined
           THEN /\ store' = cachePut(store, useCache, lruMax, t.s, t.k, value)
                /\ tasks' = Disturb(ObjDel(tasks, id))
           ELSE /\ store' = store
                /\ tasks' = ObjDel(tasks, id)
        /\ ev' = [Ev("getDone", id, t.s, t.k, Undefined, FALSE)
                    EXCEPT !.res = value, !.rt = t.rt, !.flush = "backend"]
        /\ recency' = IF useCache THEN Touched(recency, store', cacheKey(t.s, t.k))
                      ELSE recency
  /\ starts' = IF useCache
                THEN TimesAfter(starts, store',
                       IF FindOne(db, tasks[id].s, tasks[id].k) # Undefined
                       THEN {cacheKey(tasks[id].s, tasks[id].k)} ELSE {}, now)
                ELSE starts
  /\ lastUsed' = IF useCache
                 THEN TimesAfter(lastUsed, store',
                        IF FindOne(db, tasks[id].s, tasks[id].k) # Undefined
                        THEN {cacheKey(tasks[id].s, tasks[id].k)} ELSE {}, now)
                 ELSE lastUsed
  /\ UNCHANGED << removed, now,
                  events, nEdits, written,
                  issued, useCache, lruMax, mongoClient, mongoCollection, mongoWriteQueue,
                  db, file, handlers, exited, exported, nCalls, nSignals, enqueued, sent,
                  backendFailed >>

\* findOne rejects: get rejects
FindOneFails(id) ==
  /\ ~exited
  /\ id \in DOMAIN tasks
  /\ tasks[id].kind = "get" /\ tasks[id].pc = "findOne"
  /\ tasks' = ObjDel(tasks, id)
  /\ backendFailed' = TRUE
  /\ ev' = [Ev("getThrew", id, tasks[id].s, tasks[id].k, Undefined, FALSE)
              EXCEPT !.rt = tasks[id].rt]
  /\ UNCHANGED << removed, now, starts, lastUsed,
                  events, nEdits, recency, written,
                  issued, store, useCache, lruMax, mongoClient, mongoCollection,
                  mongoWriteQueue, db, file, handlers, exited, exported, nCalls, nSignals,
                  enqueued, sent >>

(***************************************************************************)
(* set and flushMongoWrites                                                *)
(***************************************************************************)
\* line 118: flushMongoWrites goes on to the bulk write
flushProceeds(coll, queue) == coll /\ Len(queue) # 0

\* flushDue with > for >=
flushDueLate(queue) == Len(queue) > FlushThreshold

\* line 78: set calls flushMongoWrites
flushDue(queue) == Len(queue) >= FlushThreshold

\* queuePush without the test for the collection
queuePushAlways(coll, queue, item) == Append(queue, item)

\* lines 76-77: the queue after set, which pushes when a collection is attached
queuePush(coll, queue, item) == IF coll THEN Append(queue, item) ELSE queue

\* bulkOps without the first write of the queue
bulkOpsTail(queue) ==
  [i \in 1..(Len(queue) - 1) |->
     [section |-> queue[i + 1].section, key |-> queue[i + 1].key,
      value |-> queue[i + 1].value, id |-> queue[i + 1].id]]

\* lines 120-126: one updateOne per queued write, in the order of the queue,
\* with the filter { section, key } and the $set of the value
bulkOps(queue) ==
  [i \in 1..Len(queue) |->
     [section |-> queue[i].section, key |-> queue[i].key,
      value |-> queue[i].value, id |-> queue[i].id]]

\* ids of the writes of a queue or of a bulk request
IdsOf(ops) == { ops[i].id : i \in 1..Len(ops) }

SetCall(section, key, value, canCache) ==
  LET id == nCalls + 1
      queue1 == queuePush(mongoCollection, mongoWriteQueue,
                          [section |-> section, key |-> key, value |-> value, id |-> id])
      flush == mongoCollection /\ flushDue(queue1) /\ flushProceeds(mongoCollection, queue1)
  IN
  /\ ~exited /\ exported
  /\ nCalls' = id
  /\ store' = IF canCache
              THEN cachePut(store, useCache, lruMax, section, key, value)
              ELSE store
  /\ mongoWriteQueue' = queue1
  /\ issued' = IF flush THEN issued + 1 ELSE issued
  /\ enqueued' = IF mongoCollection THEN enqueued \cup {id} ELSE enqueued
  /\ IF flush
     THEN \* bulkOps is built from the queue and bulkWrite is awaited
          /\ tasks' = ObjPut(IF canCache THEN Disturb(tasks) ELSE tasks, id,
                        [Task("set", "bulkWrite", section, key, value, canCache)
                           EXCEPT !.ops = bulkOps(queue1)])
          /\ ev' = [Ev("setCall", id, section, key, value, canCache)
                      EXCEPT !.flush = "started", !.ops = bulkOps(queue1),
                             !.queue = queue1]
     ELSE /\ tasks' = IF canCache THEN Disturb(tasks) ELSE tasks
          /\ ev' = [Ev("setDone", id, section, key, value, canCache)
                      EXCEPT !.queue = queue1]
  /\ recency' = IF useCache /\ canCache
                THEN Touched(recency, store', cacheKey(section, key))
                ELSE recency
  /\ written' = IF canCache THEN ObjPut(written, <<section, key>>, value) ELSE written
  /\ starts' = IF useCache
                THEN TimesAfter(starts, store',
                       IF canCache THEN {cacheKey(section, key)} ELSE {}, now)
                ELSE starts
  /\ lastUsed' = IF useCache
                 THEN TimesAfter(lastUsed, store',
                        IF canCache THEN {cacheKey(section, key)} ELSE {}, now)
                 ELSE lastUsed
  /\ removed' = removed \ { <<section>>, <<section, key>> }
  /\ UNCHANGED << now,
                  events, nEdits,
                  useCache, lruMax, mongoClient, mongoCollection, db, file,
                  handlers, exited, exported, nSignals, sent, backendFailed >>

\* bulkWrite resolves: the queue is replaced by an empty one and set returns
BulkWriteReturns(id) ==
  /\ ~exited
  /\ id \in DOMAIN tasks
  /\ tasks[id].kind = "set" /\ tasks[id].pc = "bulkWrite"
  /\ LET t == tasks[id]
     IN /\ db' = ApplyBulk(db, t.ops)
        /\ mongoWriteQueue' = <<>>
        /\ sent' = sent \cup IdsOf(t.ops)
        /\ tasks' = ObjDel(tasks, id)
        /\ ev' = [Ev("setDone", id, t.s, t.k, t.v, t.cc)
                    EXCEPT !.flush = "ok", !.ops = t.ops, !.clean = t.clean,
                           !.queue = mongoWriteQueue]
  /\ UNCHANGED << removed, now, starts, lastUsed,
                  events, nEdits, recency, written,
                  issued, store, useCache, lruMax, mongoClient, mongoCollection, file,
                  handlers, exited, exported, nCalls, nSignals, enqueued, backendFailed >>

\* bulkWrite rejects: the error is logged, the queue is kept and set returns
BulkWriteFails(id) ==
  /\ ~exited
  /\ id \in DOMAIN tasks
  /\ tasks[id].kind = "set" /\ tasks[id].pc = "bulkWrite"
  /\ LET t == tasks[id]
     IN /\ tasks' = ObjDel(tasks, id)
        /\ ev' = [Ev("setDone", id, t.s, t.k, t.v, t.cc)
                    EXCEPT !.flush = "failed", !.ops = t.ops, !.clean = t.clean,
                           !.queue = mongoWriteQueue]
  /\ backendFailed' = TRUE
  /\ UNCHANGED << removed, now, starts, lastUsed,
                  events, nEdits, recency, written,
                  issued, store, useCache, lruMax, mongoClient, mongoCollection,
                  mongoWriteQueue, db, file, handlers, exited, exported, nCalls, nSignals,
                  enqueued, sent >>

(***************************************************************************)
(* removeKey and removeSection                                             *)
(***************************************************************************)
RemoveKeyCall(section, key) ==
  LET id == nCalls + 1
  IN
  /\ ~exited /\ exported
  /\ nCalls' = id
  /\ store' = IF useCache THEN LRUDelete(store, cacheKey(section, key))
              ELSE PlainRemoveKey(store, section, key)
  /\ IF mongoCollection
     THEN /\ tasks' = ObjPut(Disturb(tasks), id,
                             Task("removeKey", "deleteOne", section, key,
                                  cachedValue(store, useCache, section, key), FALSE))
          /\ ev' = [Ev("removeKeyCall", id, section, key, Undefined, FALSE)
                      EXCEPT !.res = cachedValue(store, useCache, section, key)]
     ELSE /\ tasks' = Disturb(tasks)
          /\ ev' = [Ev("removeKeyDone", id, section, key, Undefined, FALSE)
                      EXCEPT !.res = cachedValue(store, useCache, section, key)]
  /\ recency' = IF useCache THEN Touched(recency, store', cacheKey(section, key))
                ELSE recency
  /\ written' = ObjDel(written, <<section, key>>)
  /\ starts' = IF useCache THEN TimesAfter(starts, store', {}, now) ELSE starts
  /\ lastUsed' = IF useCache THEN TimesAfter(lastUsed, store', {}, now) ELSE lastUsed
  /\ removed' = IF mongoCollection THEN removed ELSE removed \cup { <<section, key>> }
  /\ UNCHANGED << now,
                  events, nEdits,
                  issued, useCache, lruMax, mongoClient, mongoCollection, mongoWriteQueue,
                  db, file, handlers, exited, exported, nSignals, enqueued, sent, backendFailed >>

RemoveSectionCall(section) ==
  LET id == nCalls + 1
  IN
  /\ ~exited /\ exported
  /\ nCalls' = id
  \* forEach visits the entries that are not stale
  /\ store' = IF useCache
              THEN SelectSeq(store, LAMBDA e :
                     \/ Stale(e.key)
                     \/ LRUHas(LRUDeletePrefix(store, section \o <<".">>), e.key))
              ELSE ObjDel(store, section)
  /\ IF mongoCollection
     THEN /\ tasks' = ObjPut(Disturb(tasks), id,
                             Task("removeSection", "deleteMany", section, NoName, Undefined, FALSE))
          /\ ev' = Ev("removeSectionCall", id, section, NoName, Undefined, FALSE)
     ELSE /\ tasks' = Disturb(tasks)
          /\ ev' = Ev("removeSectionDone", id, section, NoName, Undefined, FALSE)
  /\ recency' = IF useCache THEN SelectSeq(recency, LAMBDA x : LRUHas(store', x))
                ELSE recency
  /\ written' = WrittenWithout(written, section)
  /\ starts' = IF useCache THEN TimesAfter(starts, store', {}, now) ELSE starts
  /\ lastUsed' = IF useCache THEN TimesAfter(lastUsed, store', {}, now) ELSE lastUsed
  /\ removed' = IF mongoCollection THEN removed ELSE removed \cup { <<section>> }
  /\ UNCHANGED << now,
                  events, nEdits,
                  issued, useCache, lruMax, mongoClient, mongoCollection, mongoWriteQueue,
                  db, file, handlers, exited, exported, nSignals, enqueued, sent, backendFailed >>

\* deleteOne or deleteMany resolves
DeleteReturns(id) ==
  /\ ~exited
  /\ id \in DOMAIN tasks
  /\ tasks[id].pc \in {"deleteOne", "deleteMany"}
  /\ LET t == tasks[id]
     IN /\ db' = IF t.pc = "deleteOne" THEN ObjDel(db, <<t.s, t.k>>)
                 ELSE DeleteMany(db, t.s)
        /\ ev' = [Ev(IF t.pc = "deleteOne" THEN "removeKeyDone" ELSE "removeSectionDone",
                     id, t.s, t.k, Undefined, FALSE)
                    EXCEPT !.clean = t.clean, !.flush = "backend", !.res = t.v]
  /\ tasks' = ObjDel(tasks, id)
  /\ removed' = removed \cup { IF tasks[id].pc = "deleteOne" THEN <<tasks[id].s, tasks[id].k>>
                                ELSE <<tasks[id].s>> }
  /\ UNCHANGED << now, starts, lastUsed,
                  events, nEdits, recency, written,
                  issued, store, useCache, lruMax, mongoClient, mongoCollection,
                  mongoWriteQueue, file, handlers, exited, exported, nCalls, nSignals,
                  enqueued, sent, backendFailed >>

\* deleteOne or deleteMany rejects: removeKey or removeSection rejects
DeleteFails(id) ==
  /\ ~exited
  /\ id \in DOMAIN tasks
  /\ tasks[id].pc \in {"deleteOne", "deleteMany"}
  /\ ev' = [Ev(IF tasks[id].pc = "deleteOne" THEN "removeKeyThrew" ELSE "removeSectionThrew",
               id, tasks[id].s, tasks[id].k, Undefined, FALSE)
              EXCEPT !.clean = tasks[id].clean, !.res = tasks[id].v]
  /\ tasks' = ObjDel(tasks, id)
  /\ backendFailed' = TRUE
  /\ UNCHANGED << removed, now, starts, lastUsed,
                  events, nEdits, recency, written,
                  issued, store, useCache, lruMax, mongoClient, mongoCollection,
                  mongoWriteQueue, db, file, handlers, exited, exported, nCalls, nSignals,
                  enqueued, sent >>

(***************************************************************************)
(* useMongo                                                                *)
(***************************************************************************)
\* Up to the first await: import('mongodb') when there is no client yet,
\* import('lru-cache') when there is one and the store is not an LRU.
UseMongoCall(maxCacheItems) ==
  LET id == nCalls + 1
  IN
  /\ ~exited /\ exported
  /\ nCalls' = id
  /\ IF ~mongoClient
     THEN /\ tasks' = ObjPut(tasks, id,
                        [Task("useMongo", "importMongo", NoName, NoName, Undefined, FALSE)
                           EXCEPT !.at = maxCacheItems])
          /\ ev' = Ev("useMongoCall", id, NoName, NoName, Undefined, FALSE)
     ELSE IF ~useCache
     THEN /\ tasks' = ObjPut(tasks, id,
                        [Task("useMongo", "importLRU", NoName, NoName, Undefined, FALSE)
                           EXCEPT !.at = maxCacheItems])
          /\ ev' = Ev("useMongoCall", id, NoName, NoName, Undefined, FALSE)
     ELSE /\ tasks' = tasks
          /\ ev' = Ev("useMongoDone", id, NoName, NoName, Undefined, FALSE)
  /\ UNCHANGED << removed, now, starts, lastUsed,
                  events, nEdits, recency, written,
                  issued, store, useCache, lruMax, mongoClient, mongoCollection,
                  mongoWriteQueue, db, file, handlers, exited, exported, nSignals, enqueued,
                  sent, backendFailed >>

\* import('mongodb') resolves: the client is created and connect() awaited
MongoImported(id) ==
  /\ ~exited
  /\ id \in DOMAIN tasks
  /\ tasks[id].kind = "useMongo" /\ tasks[id].pc = "importMongo"
  /\ mongoClient' = TRUE
  /\ tasks' = [tasks EXCEPT ![id].pc = "connect"]
  /\ ev' = Ev("mongoImported", id, NoName, NoName, Undefined, FALSE)
  /\ UNCHANGED << removed, now, starts, lastUsed,
                  events, nEdits, recency, written,
                  issued, store, useCache, lruMax, mongoCollection, mongoWriteQueue, db,
                  file, handlers, exited, exported, nCalls, nSignals, enqueued, sent,
                  backendFailed >>

\* connect() resolves: the collection is attached; then line 32
ConnectReturns(id) ==
  /\ ~exited
  /\ id \in DOMAIN tasks
  /\ tasks[id].kind = "useMongo" /\ tasks[id].pc = "connect"
  /\ mongoCollection' = TRUE
  /\ IF ~useCache
     THEN /\ tasks' = [tasks EXCEPT ![id].pc = "importLRU"]
          /\ ev' = Ev("connected", id, NoName, NoName, Undefined, FALSE)
     ELSE /\ tasks' = ObjDel(tasks, id)
          /\ ev' = Ev("useMongoDone", id, NoName, NoName, Undefined, FALSE)
  /\ UNCHANGED << removed, now, starts, lastUsed,
                  events, nEdits, recency, written,
                  issued, store, useCache, lruMax, mongoClient, mongoWriteQueue, db, file,
                  handlers, exited, exported, nCalls, nSignals, enqueued, sent, backendFailed >>

\* connect() rejects: useMongo rejects, the client stays assigned
ConnectFails(id) ==
  /\ ~exited
  /\ id \in DOMAIN tasks
  /\ tasks[id].kind = "useMongo" /\ tasks[id].pc = "connect"
  /\ tasks' = ObjDel(tasks, id)
  /\ backendFailed' = TRUE
  /\ ev' = Ev("useMongoThrew", id, NoName, NoName, Undefined, FALSE)
  /\ UNCHANGED << removed, now, starts, lastUsed,
                  events, nEdits, recency, written,
                  issued, store, useCache, lruMax, mongoClient, mongoCollection,
                  mongoWriteQueue, db, file, handlers, exited, exported, nCalls, nSignals,
                  enqueued, sent >>

\* import('lru-cache') resolves: the store becomes a new, empty LRU
LRUImported(id) ==
  /\ ~exited
  /\ id \in DOMAIN tasks
  /\ tasks[id].kind = "useMongo" /\ tasks[id].pc = "importLRU"
  /\ store' = <<>>
  /\ lruMax' = tasks[id].at
  /\ useCache' = TRUE
  /\ tasks' = Disturb(ObjDel(tasks, id))
  /\ ev' = Ev("useMongoDone", id, NoName, NoName, Undefined, FALSE)
  /\ recency' = <<>>
  /\ written' = EmptyObj
  /\ starts' = EmptyObj
  /\ lastUsed' = EmptyObj
  /\ UNCHANGED << removed, now,
                  events, nEdits,
                  issued, mongoClient, mongoCollection, mongoWriteQueue, db, file,
                  handlers, exited, exported, nCalls, nSignals, enqueued, sent, backendFailed >>

(***************************************************************************)
(* loadStore and saveStore                                                 *)
(***************************************************************************)
\* Object.entries(keys).forEach: the keys of one section of the file
RECURSIVE loadKeys(_, _, _, _, _)
loadKeys(st, cached, max, section, keys) ==
  IF DOMAIN keys = {} THEN st
  ELSE LET key == CHOOSE x \in DOMAIN keys : TRUE
       IN loadKeys(cachePut(st, cached, max, section, key, keys[key]),
                   cached, max, section, ObjDel(keys, key))

\* Object.entries(jsonData).forEach: every section of the file
RECURSIVE loadSections(_, _, _, _)
loadSections(st, cached, max, json) ==
  IF DOMAIN json = {} THEN st
  ELSE LET section == CHOOSE x \in DOMAIN json : TRUE
       IN loadSections(loadKeys(st, cached, max, section, json[section]),
                       cached, max, ObjDel(json, section))

\* What get's cache lookup returns for every pair of names
Names == Sections \cup Keys \cup { <<"x">> }
viewOf(st, cached) ==
  [p \in Names \X Names |-> cachedValue(st, cached, p[1], p[2])]

\* watch() has succeeded in the constructor: exactly when the module loaded
Watching == exported

\* isNotFound that takes every failure of the load for ENOENT
isNotFoundAny(f) == f.kind # "json"

\* line 153: error.code === 'ENOENT'
isNotFound(f) == f.kind = "absent"

\* readFile settles: the file is merged into the store, or (ENOENT) saveStore
\* is called, or the error is logged
ReadFileReturns(id) ==
  /\ ~exited
  /\ id \in DOMAIN tasks
  /\ tasks[id].kind = "load" /\ tasks[id].pc = "readFile"
  /\ IF file.kind = "json"
     THEN /\ store' = loadSections(store, useCache, lruMax, file.data)
          /\ tasks' = Disturb(ObjDel(tasks, id))
          /\ ev' = [Ev("loadDone", id, NoName, NoName, tasks[id].v, FALSE)
                      EXCEPT !.res = "loaded", !.snap = viewOf(store, useCache)]
     ELSE IF isNotFound(file)
     THEN /\ store' = store
          /\ tasks' = [tasks EXCEPT ![id].pc = "open",
                                     ![id].data = jsonData(Visited, useCache),
                                     ![id].snap = viewOf(store, useCache)]
          /\ ev' = Ev("loadSaves", id, NoName, NoName, Undefined, FALSE)
     ELSE /\ store' = store
          /\ tasks' = ObjDel(tasks, id)
          /\ ev' = [Ev("loadDone", id, NoName, NoName, tasks[id].v, FALSE)
                      EXCEPT !.res = "error", !.snap = viewOf(store, useCache)]
  /\ recency' = IF useCache /\ file.kind = "json" THEN LRUKeys(store') ELSE recency
  /\ starts' = IF useCache /\ file.kind = "json"
                THEN TimesAfter(starts, store', FileKeys(file.data), now)
                ELSE starts
  /\ lastUsed' = IF useCache /\ file.kind = "json"
                 THEN TimesAfter(lastUsed, store', FileKeys(file.data), now)
                 ELSE lastUsed
  /\ UNCHANGED << removed, now,
                  events, nEdits, written,
                  issued, useCache, lruMax, mongoClient, mongoCollection, mongoWriteQueue,
                  db, file, handlers, exited, exported, nCalls, nSignals, enqueued, sent,
                  backendFailed >>

\* The method goes on after `await this.saveStore()`: loadStore returns; a
\* signal handler awaits mongoClient?.close(), and with no client calls
\* process.exit(0).
AfterSave(id, outcome) ==
  LET t == tasks[id]
  IN IF t.kind = "load"
     THEN /\ tasks' = ObjDel(tasks, id)
          /\ exited' = exited
          /\ ev' = [Ev("loadDone", id, NoName, NoName, Undefined, FALSE)
                      EXCEPT !.res = "created", !.saved = outcome, !.snap = t.snap]
     ELSE IF mongoClient
     THEN /\ tasks' = [tasks EXCEPT ![id].pc = "close", ![id].saved = outcome]
          /\ exited' = exited
          /\ ev' = [Ev("handlerSaved", id, NoName, NoName, Undefined, FALSE)
                      EXCEPT !.saved = outcome, !.snap = t.snap]
     ELSE /\ tasks' = [tasks EXCEPT ![id].pc = "exit", ![id].saved = outcome]
          /\ exited' = TRUE
          /\ ev' = [Ev("exit", id, NoName, NoName, Undefined, FALSE)
                      EXCEPT !.saved = outcome, !.snap = t.snap, !.res = "noClient"]

\* writeFile opens the file for writing: it is truncated
WriteFileOpens(id) ==
  /\ ~exited
  /\ id \in DOMAIN tasks
  /\ tasks[id].pc = "open"
  /\ file' = FileTruncated
  /\ tasks' = [tasks EXCEPT ![id].pc = "write"]
  /\ ev' = Ev("fileOpened", id, NoName, NoName, Undefined, FALSE)
  /\ events' = IF Watching THEN events \cup {"self"} ELSE events
  /\ UNCHANGED << removed, now, starts, lastUsed,
                  nEdits, recency, written,
                  issued, store, useCache, lruMax, mongoClient, mongoCollection,
                  mongoWriteQueue, db, handlers, exited, exported, nCalls, nSignals,
                  enqueued, sent, backendFailed >>

\* writeFile resolves: the file holds JSON.stringify(jsonData)
WriteFileReturns(id) ==
  /\ ~exited
  /\ id \in DOMAIN tasks
  /\ tasks[id].pc = "write"
  /\ file' \in landed(file, tasks[id].data)
  /\ events' = IF Watching THEN events \cup {"self"} ELSE events
  /\ AfterSave(id, "ok")
  /\ UNCHANGED << removed, now, starts, lastUsed,
                  nEdits, recency, written,
                  issued, exported, store, useCache, lruMax, mongoClient, mongoCollection,
                  mongoWriteQueue, db, handlers, nCalls, nSignals, enqueued, sent,
                  backendFailed >>

\* writeFile rejects (before or after the open): the error is logged
WriteFileFails(id) ==
  /\ ~exited
  /\ id \in DOMAIN tasks
  /\ tasks[id].pc \in {"open", "write"}
  /\ AfterSave(id, "failed")
  /\ UNCHANGED << removed, now, starts, lastUsed,
                  events, nEdits, recency, written,
                  issued, exported, store, useCache, lruMax, mongoClient, mongoCollection,
                  mongoWriteQueue, db, file, handlers, nCalls, nSignals, enqueued,
                  sent, backendFailed >>

(***************************************************************************)
(* The file watcher and the other writers of the file                      *)
(***************************************************************************)
ReloadIds == 200..(200 + MaxReloads - 1)

\* Another process or an operator rewrites the file in place.
ExternalWrite(f) ==
  /\ ~exited
  /\ file' = f
  /\ nEdits' = nEdits + 1
  /\ events' = IF Watching THEN events \cup {"external"} ELSE events
  /\ ev' = Ev("externalWrite", 0, NoName, NoName, Undefined, FALSE)
  /\ UNCHANGED << removed, now, starts, lastUsed,
                  recency, written, issued, store, useCache, lruMax, mongoClient,
                  mongoCollection, mongoWriteQueue, db, tasks, handlers, exited,
                  exported, nCalls, nSignals, enqueued, sent, backendFailed >>

\* The watcher's callback runs for a 'change' notification: loadStore() is
\* called and suspends at readFile.  Notifications of the same origin that
\* have not been delivered yet are one notification.
WatchEvent(cause) ==
  /\ ~exited /\ Watching
  /\ cause \in events
  /\ \E id \in ReloadIds :
       /\ id \notin DOMAIN tasks
       /\ \A j \in ReloadIds : j < id => j \in DOMAIN tasks
       /\ tasks' = ObjPut(tasks, id,
                          Task("load", "readFile", NoName, NoName, cause, FALSE))
       /\ ev' = Ev("reload", id, NoName, NoName, cause, FALSE)
  /\ events' = events \ {cause}
  /\ UNCHANGED << removed, now, starts, lastUsed,
                  nEdits, recency, written, issued, store, useCache, lruMax,
                  mongoClient, mongoCollection, mongoWriteQueue, db, file, handlers,
                  exited, exported, nCalls, nSignals, enqueued, sent, backendFailed >>

(***************************************************************************)
(* Time                                                                    *)
(***************************************************************************)
\* The clock of the LRU advances by one tick.
Tick ==
  /\ ~exited
  /\ now' = now + 1
  /\ ev' = Ev("tick", 0, NoName, NoName, Undefined, FALSE)
  /\ UNCHANGED << removed, starts, lastUsed, events, nEdits, recency, written, issued, store,
                  useCache, lruMax, mongoClient, mongoCollection, mongoWriteQueue, db,
                  file, tasks, handlers, exited, exported, nCalls, nSignals, enqueued,
                  sent, backendFailed >>

(***************************************************************************)
(* setupShutdown and the signal handlers                                   *)
(***************************************************************************)
SetupShutdownCall ==
  /\ ~exited /\ exported
  /\ ~handlers
  /\ handlers' = TRUE
  /\ nCalls' = nCalls + 1
  /\ ev' = Ev("setupShutdownDone", nCalls + 1, NoName, NoName, Undefined, FALSE)
  /\ UNCHANGED << removed, now, starts, lastUsed,
                  events, nEdits, recency, written,
                  issued, store, useCache, lruMax, mongoClient, mongoCollection,
                  mongoWriteQueue, db, file, tasks, exited, exported, nSignals, enqueued,
                  sent, backendFailed >>

Signals == { "SIGTERM", "SIGINT" }

\* A signal arrives.  With no handler registered the process ends at once;
\* with one, the handler runs saveStore up to its writeFile.
Signal(sig) ==
  LET id == 100 + nSignals
  IN
  /\ ~exited
  /\ nSignals' = nSignals + 1
  /\ IF handlers
     THEN /\ tasks' = ObjPut(tasks, id,
                        [Task("handler", "open", NoName, NoName, sig, FALSE)
                           EXCEPT !.data = jsonData(Visited, useCache),
                                  !.snap = viewOf(store, useCache)])
          /\ exited' = FALSE
          /\ ev' = [Ev("signal", id, NoName, NoName, sig, FALSE)
                      EXCEPT !.queue = mongoWriteQueue]
     ELSE /\ tasks' = tasks
          /\ exited' = TRUE
          /\ ev' = [Ev("exit", id, NoName, NoName, sig, FALSE) EXCEPT !.res = "default"]
  /\ UNCHANGED << removed, now, starts, lastUsed,
                  events, nEdits, recency, written,
                  issued, exported, store, useCache, lruMax, mongoClient, mongoCollection,
                  mongoWriteQueue, db, file, handlers, nCalls, enqueued, sent,
                  backendFailed >>

\* close() resolves: process.exit(0)
CloseReturns(id) ==
  /\ ~exited
  /\ id \in DOMAIN tasks
  /\ tasks[id].kind = "handler" /\ tasks[id].pc = "close"
  /\ tasks' = [tasks EXCEPT ![id].pc = "exit"]
  /\ exited' = TRUE
  /\ ev' = [Ev("exit", id, NoName, NoName, tasks[id].v, FALSE)
              EXCEPT !.saved = tasks[id].saved, !.snap = tasks[id].snap,
                     !.res = "closed"]
  /\ UNCHANGED << removed, now, starts, lastUsed,
                  events, nEdits, recency, written,
                  issued, exported, store, useCache, lruMax, mongoClient, mongoCollection,
                  mongoWriteQueue, db, file, handlers, nCalls, nSignals, enqueued,
                  sent, backendFailed >>

\* close() rejects: the handler rejects before process.exit(0).  The
\* unhandled rejection ends the process or is only reported, depending on
\* the runtime (--unhandled-rejections).
CloseFails(id) ==
  /\ ~exited
  /\ id \in DOMAIN tasks
  /\ tasks[id].kind = "handler" /\ tasks[id].pc = "close"
  /\ tasks' = ObjDel(tasks, id)
  /\ exited' \in BOOLEAN
  /\ backendFailed' = TRUE
  /\ ev' = [Ev("handlerThrew", id, NoName, NoName, tasks[id].v, FALSE)
              EXCEPT !.saved = tasks[id].saved, !.snap = tasks[id].snap,
                     !.res = IF exited' THEN "crashed" ELSE "alive"]
  /\ UNCHANGED << removed, now, starts, lastUsed,
                  events, nEdits, recency, written,
                  issued, exported, store, useCache, lruMax, mongoClient, mongoCollection,
                  mongoWriteQueue, db, file, handlers, nCalls, nSignals, enqueued,
                  sent >>

(***************************************************************************)
(* Environments.                                                           *)
(***************************************************************************)
TaskIds == (0..(100 + MaxSignals)) \cup ReloadIds

\* No call of the API is suspended: the caller has awaited each call.
Awaited == \A id \in DOMAIN tasks : tasks[id].kind \in {"load", "handler"}

BackendSettle(id) ==
  \/ FindOneReturns(id)
  \/ FindOneFails(id)
  \/ DeleteReturns(id)
  \/ DeleteFails(id)
  \/ MongoImported(id)
  \/ ConnectReturns(id)
  \/ ConnectFails(id)
  \/ LRUImported(id)

FileSettle(id) ==
  \/ ReadFileReturns(id)
  \/ WriteFileOpens(id)
  \/ WriteFileReturns(id)
  \/ WriteFileFails(id)

\* Spec: a caller that awaits each of its calls, up to MaxCalls of them.
Call ==
  /\ nCalls < MaxCalls
  /\ Awaited
  /\ \/ \E s \in Sections, k \in Keys : GetCall(s, k)
     \/ \E s \in Sections, k \in Keys, v \in Values, c \in BOOLEAN : SetCall(s, k, v, c)
     \/ \E s \in Sections, k \in Keys : RemoveKeyCall(s, k)
     \/ \E s \in Sections : RemoveSectionCall(s)
     \/ UseMongoCall(CacheCapacity)

Next ==
  \/ Call
  \/ \E id \in TaskIds : BackendSettle(id)
  \/ \E id \in TaskIds : FileSettle(id)

Spec == Init /\ [][Next]_vars

\* BatchSpec: the caller awaits useMongo and then issues sets without
\* awaiting them, enough of them to fill the write queue more than once, and
\* reads a key back when a set that had to flush returns.
BatchInit == InitWith(FileJson(EmptyObj), EmptyObj)

BatchValue(n) == IF n % 2 = 0 THEN "v1" ELSE "v2"

BatchCall ==
  /\ nCalls < MaxBatchCalls
  /\ IF nCalls = 0
     THEN UseMongoCall(CacheCapacity)
     ELSE /\ mongoCollection /\ useCache
          /\ \/ \E k \in Keys : SetCall(<<"u">>, k, BatchValue(nCalls), TRUE)
             \/ (ev.type = "setDone" /\ ev.flush # "none" /\ GetCall(ev.s, ev.k))

BatchSettle(id) ==
  \/ MongoImported(id)
  \/ ConnectReturns(id)
  \/ LRUImported(id)
  \/ BulkWriteReturns(id)
  \/ BulkWriteFails(id)
  \/ ReadFileReturns(id)

BatchNext ==
  \/ BatchCall
  \/ \E id \in TaskIds : BatchSettle(id)

BatchSpec == BatchInit /\ [][BatchNext]_vars

\* DownSpec: the caller awaits up to MaxDownCalls calls, one of which may
\* be setupShutdown, and the process receives up to MaxSignals signals.
DownInit == InitWith(FileJson(EmptyObj), EmptyObj)

DownCall ==
  /\ nCalls < MaxDownCalls
  /\ Awaited
  /\ \/ UseMongoCall(CacheCapacity)
     \/ \E k \in Keys : SetCall(<<"u">>, k, "v1", TRUE)
     \/ SetupShutdownCall

DownSettle(id) ==
  \/ MongoImported(id)
  \/ ConnectReturns(id)
  \/ ConnectFails(id)
  \/ LRUImported(id)
  \/ CloseReturns(id)
  \/ CloseFails(id)

DownNext ==
  \/ DownCall
  \/ (nSignals < MaxSignals /\ \E sig \in Signals : Signal(sig))
  \/ \E id \in TaskIds : DownSettle(id)
  \/ \E id \in TaskIds : FileSettle(id)

DownSpec == DownInit /\ [][DownNext]_vars

\* The runtime and the file system make progress: a started file read or
\* write settles.  Nothing makes the backend answer.
LiveDownSpec ==
  /\ DownSpec
  /\ WF_vars(\E id \in TaskIds : FileSettle(id))

\* WatchSpec: the file exists at startup, parseable or not, so the watcher
\* runs.  The caller awaits up to MaxWatchCalls calls, another writer
\* rewrites the file up to MaxEdits times, the process receives up to
\* MaxWatchSignals signals, and the watcher's notifications are delivered.
WatchInit == \E f \in { FileJson(EmptyObj), FileCorrupt } : InitWith(f, EmptyObj)

\* Files written by the other writer
ExtFiles ==
  { FileJson(PlainSet(EmptyObj, <<"u", ".", "x">>, <<"k">>, "v2")),
    FileJson(PlainSet(PlainSet(EmptyObj, <<"u">>, <<"x", ".", "k">>, "v2"),
                      <<"u", ".", "x">>, <<"k">>, "v1")) }

WatchCall ==
  /\ nCalls < MaxWatchCalls
  /\ Awaited
  /\ \/ UseMongoCall(CacheCapacity)
     \/ \E k \in Keys : SetCall(<<"u">>, k, "v1", TRUE)
     \/ SetupShutdownCall

WatchSettle(id) ==
  \/ MongoImported(id)
  \/ ConnectReturns(id)
  \/ LRUImported(id)
  \/ CloseReturns(id)

WatchNext ==
  \/ WatchCall
  \/ (nSignals < MaxWatchSignals /\ Signal("SIGTERM"))
  \/ (nEdits < MaxEdits /\ \E f \in ExtFiles : ExternalWrite(f))
  \/ \E cause \in {"self", "external"} : WatchEvent(cause)
  \/ \E id \in TaskIds : WatchSettle(id)
  \/ \E id \in TaskIds : FileSettle(id)

WatchSpec == WatchInit /\ [][WatchNext]_vars

\* CacheSpec: the caller awaits useMongo and then gets and sets of more
\* distinct keys than the cache holds.
CacheInit == \E docs \in InitDocs : InitWith(FileJson(EmptyObj), docs)

CacheKeys == Keys \cup { <<"x">> }

CacheCall ==
  /\ nCalls < MaxCacheCalls
  /\ Awaited
  /\ IF nCalls = 0
     THEN UseMongoCall(CacheCapacity)
     ELSE /\ mongoCollection /\ useCache
          /\ \/ \E s \in Sections, k \in CacheKeys : GetCall(s, k)
             \/ \E s \in Sections, k \in CacheKeys : SetCall(s, k, "v1", TRUE)

CacheSettle(id) ==
  \/ MongoImported(id)
  \/ ConnectReturns(id)
  \/ LRUImported(id)
  \/ FindOneReturns(id)
  \/ FindOneFails(id)
  \/ ReadFileReturns(id)

CacheNext ==
  \/ CacheCall
  \/ \E id \in TaskIds : CacheSettle(id)

CacheSpec == CacheInit /\ [][CacheNext]_vars

\* ExpirySpec: the caller awaits useMongo and then gets and sets while the
\* clock advances past the ttl.
ExpiryCall ==
  /\ nCalls < MaxExpiryCalls
  /\ Awaited
  /\ IF nCalls = 0
     THEN UseMongoCall(CacheCapacity)
     ELSE /\ mongoCollection /\ useCache
          /\ \/ \E k \in Keys : GetCall(<<"u">>, k)
             \/ \E k \in Keys : SetCall(<<"u">>, k, "v1", TRUE)

ExpiryNext ==
  \/ ExpiryCall
  \/ (useCache /\ now < MaxTime /\ Tick)
  \/ \E id \in TaskIds : CacheSettle(id)

ExpirySpec == CacheInit /\ [][ExpiryNext]_vars

\* PlainSpec: the store is the plain object.  The caller may call useMongo
\* without awaiting it and awaits each of its other calls, so that gets and
\* sets run with the collection attached and the LRU not yet created; the
\* file read at startup may list a section with no keys.
PlainFiles ==
  { FileJson(ObjPut(EmptyObj, <<"u">>, EmptyObj)),
    FileJson(PlainSet(ObjPut(EmptyObj, <<"u", ".", "x">>, EmptyObj),
                      <<"u">>, <<"k">>, "v2")) }

PlainInit == \E f \in PlainFiles, docs \in InitDocs : InitWith(f, docs)

PlainCall ==
  /\ nCalls < MaxPlainCalls
  /\ ~useCache
  /\ \A id \in DOMAIN tasks : tasks[id].kind \in {"load", "useMongo"}
  /\ \/ (nCalls = 0 /\ UseMongoCall(CacheCapacity))
     \/ \E s \in Sections, k \in Keys : GetCall(s, k)
     \/ \E s \in Sections, k \in Keys : SetCall(s, k, "v1", TRUE)
     \/ \E s \in Sections, k \in Keys : RemoveKeyCall(s, k)
     \/ \E s \in Sections : RemoveSectionCall(s)

PlainSettle(id) ==
  \/ MongoImported(id)
  \/ ConnectReturns(id)
  \/ FindOneReturns(id)
  \/ FindOneFails(id)
  \/ DeleteReturns(id)
  \/ DeleteFails(id)
  \/ LRUImported(id)
  \/ ReadFileReturns(id)

PlainNext ==
  \/ PlainCall
  \/ \E id \in TaskIds : PlainSettle(id)

PlainSpec == PlainInit /\ [][PlainNext]_vars

\* RemoveSpec: the caller awaits each call: useMongo, then sets of one key,
\* a removal of that key or of its section (again when it failed), and then
\* sets of a key of another section, enough of them for the queue to be
\* flushed, with reads of the removed key.
RemoveInit == InitWith(FileJson(EmptyObj), EmptyObj)

RemoveCall ==
  /\ nCalls < MaxRemoveCalls
  /\ Awaited
  /\ IF nCalls = 0
     THEN UseMongoCall(CacheCapacity)
     ELSE /\ mongoCollection /\ useCache
          /\ \/ (removed = {} /\ SetCall(<<"u">>, <<"k">>, "v1", TRUE))
             \/ (removed = {} /\ RemoveSectionCall(<<"u">>))
             \/ (removed = {} /\ RemoveKeyCall(<<"u">>, <<"k">>))
             \/ (removed # {} /\ SetCall(<<"u", ".", "x">>, <<"k">>, "v1", TRUE))
             \/ /\ \/ ev.type \in {"removeKeyDone", "removeSectionDone"}
                   \/ (ev.type = "setDone" /\ ev.flush # "none")
                /\ GetCall(<<"u">>, <<"k">>)

RemoveSettle(id) ==
  \/ MongoImported(id)
  \/ ConnectReturns(id)
  \/ LRUImported(id)
  \/ FindOneReturns(id)
  \/ FindOneFails(id)
  \/ BulkWriteReturns(id)
  \/ BulkWriteFails(id)
  \/ DeleteReturns(id)
  \/ DeleteFails(id)
  \/ ReadFileReturns(id)

RemoveNext ==
  \/ RemoveCall
  \/ \E id \in TaskIds : RemoveSettle(id)

RemoveSpec == RemoveInit /\ [][RemoveNext]_vars

\* ValueSpec: the values are 0, false, '' and null.  The caller awaits each
\* call: useMongo or not, sets of the key "k" and gets of "k" and of a key
\* that nothing ever sets; the collection and the file may hold such a value
\* of "k" from an earlier run.
ValueDocs ==
  { EmptyObj } \cup { ObjPut(EmptyObj, << <<"u">>, <<"k">> >>, v) : v \in Falsy }

ValueFiles ==
  { FileJson(EmptyObj), FileJson(PlainSet(EmptyObj, <<"u">>, <<"k">>, "0")) }

ValueInit == \E f \in ValueFiles, docs \in ValueDocs : InitWith(f, docs)

NeverSet == <<"x", ".", "k">>

ValueCall ==
  /\ nCalls < MaxValueCalls
  /\ Awaited
  /\ \/ UseMongoCall(CacheCapacity)
     \/ \E v \in Falsy, c \in BOOLEAN : SetCall(<<"u">>, <<"k">>, v, c)
     \/ \E k \in { <<"k">>, NeverSet } : GetCall(<<"u">>, k)

ValueSettle(id) ==
  \/ MongoImported(id)
  \/ ConnectReturns(id)
  \/ LRUImported(id)
  \/ FindOneReturns(id)
  \/ FindOneFails(id)
  \/ ReadFileReturns(id)

ValueNext ==
  \/ ValueCall
  \/ \E id \in TaskIds : ValueSettle(id)

ValueSpec == ValueInit /\ [][ValueNext]_vars

\* RaceSpec: the caller awaits useMongo, calls get without awaiting it and,
\* while the get waits for the backend, calls and awaits a set or a removeKey
\* of the same key.
RaceInit == \E docs \in InitDocs : InitWith(FileJson(EmptyObj), docs)

GetPending == \E id \in DOMAIN tasks : tasks[id].kind = "get"

RaceCall ==
  /\ nCalls < MaxRaceCalls
  /\ \A id \in DOMAIN tasks : tasks[id].kind \in {"load", "get"}
  /\ IF nCalls = 0
     THEN UseMongoCall(CacheCapacity)
     ELSE /\ mongoCollection /\ useCache
          /\ \/ (~GetPending /\ GetCall(<<"u">>, <<"k">>))
             \/ (GetPending /\ \E v \in Values : SetCall(<<"u">>, <<"k">>, v, TRUE))
             \/ (GetPending /\ RemoveKeyCall(<<"u">>, <<"k">>))

RaceSettle(id) ==
  \/ MongoImported(id)
  \/ ConnectReturns(id)
  \/ LRUImported(id)
  \/ FindOneReturns(id)
  \/ FindOneFails(id)
  \/ DeleteReturns(id)
  \/ DeleteFails(id)
  \/ ReadFileReturns(id)

RaceNext ==
  \/ RaceCall
  \/ \E id \in TaskIds : RaceSettle(id)

RaceSpec == RaceInit /\ [][RaceNext]_vars

\* ReloadSpec: the file exists at startup, parseable or not.  The caller
\* awaits useMongo or sets; another writer replaces the file by text that
\* cannot be parsed, makes it unreadable or writes a snapshot; the watcher's
\* notifications are delivered and the reloads run.
ReloadInit == \E f \in { FileJson(EmptyObj), FileCorrupt } : InitWith(f, EmptyObj)

ReloadFiles ==
  { FileCorrupt, FileUnreadable,
    FileJson(PlainSet(EmptyObj, <<"u">>, <<"k">>, "v2")) }

ReloadCall ==
  /\ nCalls < MaxReloadCalls
  /\ Awaited
  /\ \/ UseMongoCall(CacheCapacity)
     \/ \E k \in Keys : SetCall(<<"u">>, k, "v1", TRUE)

ReloadSettle(id) ==
  \/ MongoImported(id)
  \/ ConnectReturns(id)
  \/ LRUImported(id)

ReloadNext ==
  \/ ReloadCall
  \/ (nEdits < MaxReloadEdits /\ \E f \in ReloadFiles : ExternalWrite(f))
  \/ \E cause \in {"self", "external"} : WatchEvent(cause)
  \/ \E id \in TaskIds : ReloadSettle(id)
  \/ \E id \in ReloadIds : ReadFileReturns(id)

ReloadSpec == ReloadInit /\ [][ReloadNext]_vars

(***************************************************************************)
(* Properties of get and set.                                              *)
(***************************************************************************)
\* C1: a get that directly follows a completed set(section, key, value) with
\* canCache = true returns value, with and without a backend attached.
RoundTrip ==
  (ev.type \in {"getDone", "getThrew"} /\ ev.rt # NoRT /\ ev.rt.cc)
    => (ev.type = "getDone" /\ ev.res = ev.rt.v)

\* C1 witness: such a get has returned with the backend attached
RoundTripWitness ==
  /\ ev.type = "getDone" /\ ev.rt # NoRT /\ ev.rt.cc
  /\ mongoCollection /\ useCache

\* C1, the case without a backend
RoundTripWitnessPlain ==
  /\ ev.type = "getDone" /\ ev.rt # NoRT /\ ev.rt.cc
  /\ ~mongoCollection /\ ~useCache

\* C2: with the backend attached, the get that directly follows a completed
\* set(section, key, value, false) misses the cache, reads value from the
\* backend, returns it and leaves it in the cache.
NonCacheableReadBack ==
  (ev.type \in {"getDone", "getThrew"} /\ ev.rt # NoRT /\ ~ev.rt.cc
     /\ mongoCollection /\ ~backendFailed)
    => /\ ev.type = "getDone"
       /\ ev.flush = "backend"
       /\ ev.res = ev.rt.v
       /\ cachedValue(store, useCache, ev.s, ev.k) = ev.rt.v

(***************************************************************************)
(* Properties of the write queue.                                          *)
(***************************************************************************)
InFlight == { id \in DOMAIN tasks : tasks[id].pc = "bulkWrite" }

\* C3: when the bulk write of a flush fails, the queue still holds every
\* write it held when the flush started, and a flush sends the whole queue
\* (so they are sent again); when it succeeds, the writes it sent are no
\* longer queued.
FlushOutcome ==
  /\ (ev.type = "setDone" /\ ev.flush = "failed")
       => IdsOf(ev.ops) \subseteq IdsOf(mongoWriteQueue)
  /\ (ev.flush = "started") => ev.ops = mongoWriteQueue
  /\ (ev.type = "setDone" /\ ev.flush = "ok")
       => IdsOf(ev.ops) \cap IdsOf(mongoWriteQueue) = {}

\* C4: at most one bulk write is in flight.
OneFlushAtATime == Cardinality(InFlight) <= 1

\* C5: every write that was enqueued is still queued or was part of a bulk
\* write that succeeded.
NoWriteLost == enqueued \subseteq (IdsOf(mongoWriteQueue) \cup sent)

\* C6: starting with the backend attached and an empty queue, no bulk write
\* is issued before FlushThreshold writes were enqueued, and a set issues a
\* bulk write exactly when it brings the queue to the threshold; the bulk
\* write then holds the whole queue.
Batching ==
  /\ Cardinality(enqueued) < FlushThreshold
       => issued = 0
  /\ (ev.type \in {"setCall", "setDone"} /\ ev.flush \in {"none", "started"}
        /\ ev.queue # <<>>)
       => /\ (ev.flush = "started") <=> (Len(ev.queue) >= FlushThreshold)
          /\ (ev.flush = "started") => (ev.ops = ev.queue /\ ev.id \in InFlight)
          /\ (Cardinality(enqueued) = FlushThreshold) => issued = 1

\* C6 witness: the tenth set has issued the first bulk write, of ten writes
BatchingWitness ==
  /\ ev.type = "setCall" /\ ev.flush = "started"
  /\ Cardinality(enqueued) = FlushThreshold
  /\ Len(ev.ops) = FlushThreshold
  /\ issued = 1

(***************************************************************************)
(* Properties of the shutdown.                                             *)
(***************************************************************************)
\* The process was ended by process.exit(0) of a signal handler
HandlerExit == ev.type = "exit" /\ ev.res \in {"closed", "noClient"}

\* What a reader of the file finds for every pair of names
fileView ==
  [p \in Names \X Names |->
     IF file.kind = "json" THEN PlainGet(file.data, p[1], p[2]) ELSE Undefined]

\* C7: when a signal handler ends the process and no backend call has
\* failed, every enqueued write has been sent and the queue is empty.
ShutdownDrains ==
  (HandlerExit /\ ~backendFailed)
    => (mongoWriteQueue = <<>> /\ enqueued \subseteq sent)

\* C8: a handler ends the process only after its save has completed and
\* (with a client) after close; no save is in progress when the process
\* ends; a save that succeeded has written the contents the cache had when
\* the signal arrived.
ShutdownOrder ==
  /\ HandlerExit
       => /\ ev.saved # "no"
          /\ (ev.res = "closed") <=> mongoClient
          /\ \A id \in DOMAIN tasks :
               tasks[id].kind = "handler" => tasks[id].pc \notin {"open", "write"}
  /\ ((ev.type = "handlerSaved" \/ (HandlerExit /\ ev.res = "noClient"))
        /\ ev.saved = "ok")
       => fileView = ev.snap

\* C9: a failed save is followed by the close, and a failed close by the end
\* of the process.
BestEffortShutdown ==
  /\ \A id \in DOMAIN tasks :
       (tasks[id].kind = "handler" /\ tasks[id].saved = "failed")
         => tasks[id].pc \in {"close", "exit"}
  /\ (ev.type = "handlerThrew") => exited

\* C10: once a signal has been received the process eventually ends.
ShutdownTerminates == (nSignals > 0) ~> exited

(***************************************************************************)
(* Properties of the file watcher.                                         *)
(***************************************************************************)
\* C11: a change notification caused by the store's own save never starts a
\* reload; every reload is started by a notification of another writer's
\* change.
SelfEventSuppression == (ev.type = "reload") => (ev.v = "external")

\* A save of this process is between the call of writeFile and its end
Saving == \E id \in DOMAIN tasks : tasks[id].pc \in {"open", "write"}

\* A reload of the watcher is reading the file
Reloading ==
  \E id \in ReloadIds \cap DOMAIN tasks :
     tasks[id].kind = "load" /\ tasks[id].pc = "readFile"

\* C12: no reload of the watcher is reading the file while a save of this
\* process is in progress.
NoReloadDuringSave == ~(Saving /\ Reloading)

\* A reload of the watcher has merged a file written by another writer
ReloadedExternal ==
  /\ ev.type = "loadDone" /\ ev.res = "loaded" /\ ev.id \in ReloadIds
  /\ file \in ExtFiles

\* C13: when a reload has merged a file written by another writer, every
\* (section, key) that set had put in the cache, that was cached with that
\* value before the reload and that the file does not hold is still cached
\* with that value.
ReconcileKeepsLocal ==
  ReloadedExternal =>
    \A p \in DOMAIN written :
       (ev.snap[p] = written[p] /\ PlainGet(file.data, p[1], p[2]) = Undefined)
         => cachedValue(store, useCache, p[1], p[2]) = written[p]

\* C14: when a reload of the watcher has merged a parseable file, the cache
\* holds the file's value for every (section, key) of the file.
LastWriterWins ==
  (ev.type = "loadDone" /\ ev.res = "loaded" /\ ev.id \in ReloadIds)
    => \A section \in DOMAIN file.data :
         \A key \in DOMAIN file.data[section] :
            cachedValue(store, useCache, section, key) = file.data[section][key]

(***************************************************************************)
(* Properties of the snapshot file.                                        *)
(***************************************************************************)
\* C15: in every state, saving the store and loading what was saved into a
\* new, empty store of the same mode gives a store in which get's lookup
\* returns the same for every (section, key): the value of the original, or
\* nothing where the original holds nothing.
SnapshotFidelity ==
  LET fresh == IF useCache THEN <<>> ELSE EmptyObj
      loaded == loadSections(fresh, useCache, lruMax, jsonData(store, useCache))
  IN viewOf(loaded, useCache) = viewOf(store, useCache)

\* C16: the file never holds an empty or partly written text: a reader finds
\* the complete text of before a save or the complete text it writes.
SaveAtomic == file.kind \notin {"truncated", "mixed"}

\* The write of a save has ended with success in this step
SaveCompleted ==
  /\ ev.saved = "ok"
  /\ \/ ev.type = "handlerSaved"
     \/ (ev.type = "exit" /\ ev.res = "noClient")
     \/ (ev.type = "loadDone" /\ ev.res = "created")

\* C17: when the write of a save has ended with success, the file is the
\* text of one cache state: what a reader parses from it is what the cache
\* held at the instant that save was called.
SnapshotConsistent == SaveCompleted => (file.kind = "json" /\ fileView = ev.snap)

\* C18: started with the file absent, the instance is constructed and in
\* use, and once the save of loadStore has succeeded the file holds the
\* empty mapping and the watcher is observing it.
AbsentStartup ==
  /\ (ev.type = "init" /\ file.kind = "absent") => (exported /\ ~exited)
  /\ (ev.type = "loadDone" /\ ev.res = "created" /\ ev.saved = "ok")
       => (file = FileJson(EmptyObj) /\ Watching)

\* C19: a file that cannot be parsed is changed by no step of the store:
\* while it holds that text, only another writer gives it another text.
CorruptUntouched ==
  [][(file = FileCorrupt) => (file' = FileCorrupt \/ ev'.type = "externalWrite")]_vars

(***************************************************************************)
(* Properties of the bounded cache.                                        *)
(***************************************************************************)
\* This step is a set or a get that puts a key that is not cached in a cache
\* that holds lruMax entries
InsertsWhenFull ==
  /\ useCache /\ Len(store) = lruMax
  /\ \/ ev'.type \in {"setCall", "setDone"} /\ ev'.id = nCalls' /\ nCalls' # nCalls
        /\ ev'.cc
     \/ ev'.type = "getDone" /\ ev'.flush = "backend" /\ ev'.res # Undefined
  /\ cacheKey(ev'.s, ev'.k) \notin KeysOf(store)

\* This step is the call of a get of a key that is not cached
GetMisses ==
  /\ useCache /\ mongoCollection
  /\ ev'.type \in {"getCall", "getDone"} /\ nCalls' # nCalls
  /\ cacheKey(ev'.s, ev'.k) \notin KeysOf(store)

\* C20: the cache never holds more than lruMax entries; a set or get that
\* puts a key that is not cached in a full cache removes exactly the entry
\* whose last use (set, get hit or fill) is the oldest and leaves the others
\* as they are; and a get of a key that is not cached asks the backend.
Eviction ==
  /\ [](useCache => Len(store) <= lruMax)
  /\ [][InsertsWhenFull =>
          /\ KeysOf(store') =
               (KeysOf(store) \ {recency[Len(recency)]}) \cup {cacheKey(ev'.s, ev'.k)}
          /\ \A ck \in KeysOf(store) \cap KeysOf(store') :
               LRUGet(store', ck) = LRUGet(store, ck)]_vars
  /\ [][GetMisses =>
          /\ ev'.type = "getCall"
          /\ ev'.id \in DOMAIN tasks' /\ tasks'[ev'.id].pc = "findOne"]_vars

\* C20 witness: a get of a key that set had cached, that a later insertion
\* in the full cache has evicted, has missed the cache and asked the backend
EvictionWitness ==
  /\ ev.type = "getCall" /\ useCache /\ Len(store) = lruMax
  /\ <<ev.s, ev.k>> \in DOMAIN written
  /\ cacheKey(ev.s, ev.k) \notin KeysOf(store)
  /\ ev.id \in DOMAIN tasks /\ tasks[ev.id].pc = "findOne"

\* This step is the call of a get of a key the LRU holds an entry of
GetOfCached ==
  /\ useCache /\ nCalls' # nCalls
  /\ ev'.type \in {"getCall", "getDone"}
  /\ cacheKey(ev'.s, ev'.k) \in KeysOf(store)

\* C21: a get of an entry that was neither set nor hit by a get for more
\* than CacheTtl misses the cache; a get of an entry that was set or hit
\* less than CacheTtl ago returns the cached value.
Expiry ==
  [][GetOfCached =>
       LET ck == cacheKey(ev'.s, ev'.k)
           idle == now - lastUsed[ck]
       IN /\ (idle > CacheTtl) => (ev'.type = "getCall" \/ ev'.res = Undefined)
          /\ (idle < CacheTtl) => (ev'.type = "getDone" /\ ev'.res = LRUGet(store, ck))]_vars

(***************************************************************************)
(* Properties of the removals.                                             *)
(***************************************************************************)
\* C22: while the store is the plain object, every section in it has at
\* least one key (so a removeKey of the last key of a section has removed
\* the section, and a section the file lists with no keys is not created).
NoEmptySection ==
  ~useCache => \A section \in DOMAIN store : DOMAIN store[section] # {}

\* C22 witness: removeKey has removed the last key of a section while other
\* sections stay, and the section is gone
NoEmptySectionWitness ==
  /\ ~useCache
  /\ ev.type \in {"removeKeyCall", "removeKeyDone"}
  /\ ev.res # Undefined
  /\ ev.s \notin DOMAIN store
  /\ DOMAIN store # {}

\* C23: once removeSection(section) has returned and no set on the section
\* was issued since, the backend holds no document of the section and every
\* get of a key of the section returns nothing, also after writes queued
\* before the removal were flushed.
SectionRemoved ==
  \A section \in Sections :
     <<section>> \in removed
       => /\ \A p \in DOMAIN db : p[1] # section
          /\ (ev.type = "getDone" /\ ev.s = section) => ev.res = Undefined

\* C24: once removeKey(section, key) has returned and no set on the key was
\* issued since, the backend holds no document of the key and every get of
\* it returns nothing, also after writes queued before the removal were
\* flushed.
KeyRemoved ==
  \A section \in Sections, key \in Keys :
     <<section, key>> \in removed
       => /\ <<section, key>> \notin DOMAIN db
          /\ (ev.type = "getDone" /\ ev.s = section /\ ev.k = key)
               => ev.res = Undefined

(***************************************************************************)
(* Properties of the order of the writes.                                  *)
(***************************************************************************)
\* C25: once no bulk write is in flight, none has failed, the queue is empty
\* and every enqueued write was part of a bulk write that succeeded, the
\* backend holds for every (section, key) the value of the set issued last
\* for it (no bulk write has put an older value over a newer one).
PerKeyOrder ==
  (/\ InFlight = {} /\ ~backendFailed
   /\ mongoWriteQueue = <<>> /\ enqueued # {} /\ enqueued \subseteq sent)
    => \A p \in DOMAIN written : FindOne(db, p[1], p[2]) = written[p]

(***************************************************************************)
(* Properties of the lookup.                                               *)
(***************************************************************************)
\* This step is the synchronous part of a get
GetCalled == nCalls' # nCalls /\ ev'.type \in {"getCall", "getDone"}

\* This step is the return of a get that has read the backend
GetRead == ev'.type = "getDone" /\ ev'.flush = "backend"

\* C26: a get whose key is cached returns the cached value and makes no
\* backend call; a get that misses the cache reads the backend exactly when
\* one is attached; when the backend holds the key, the get returns the
\* backend's value and the cache holds it afterwards; when neither holds
\* it, the get returns nothing and the cache is as it was.
CacheFirst ==
  [][/\ GetCalled =>
          LET cached == cachedValue(store, useCache, ev'.s, ev'.k)
          IN /\ cached # Undefined
                  => /\ ev'.type = "getDone" /\ ev'.res = cached
                     /\ tasks' = tasks /\ db' = db
             /\ (cached = Undefined /\ mongoCollection)
                  => /\ ev'.type = "getCall"
                     /\ ev'.id \in DOMAIN tasks' /\ tasks'[ev'.id].pc = "findOne"
             /\ (cached = Undefined /\ ~mongoCollection)
                  => /\ ev'.type = "getDone" /\ ev'.res = Undefined
                     /\ tasks' = tasks
                     /\ viewOf(store', useCache) = viewOf(store, useCache)
     /\ GetRead =>
          LET p == <<ev'.s, ev'.k>>
          IN /\ p \in DOMAIN db
                  => /\ ev'.res = db[p]
                     /\ cachedValue(store', useCache, ev'.s, ev'.k) = db[p]
             /\ p \notin DOMAIN db
                  => /\ ev'.res = Undefined
                     /\ store' = store]_vars

\* C26 witness: a get has missed the cache, read the value from the backend
\* and left it in the cache
CacheFirstWitness ==
  /\ ev.type = "getDone" /\ ev.flush = "backend"
  /\ ev.res # Undefined
  /\ cachedValue(store, useCache, ev.s, ev.k) = ev.res

\* C26, the other cases: a get has returned a cached value with the backend
\* attached
CacheFirstWitnessHit ==
  /\ ev.type = "getDone" /\ ev.flush = "none"
  /\ ev.res # Undefined
  /\ mongoCollection

(***************************************************************************)
(* Properties of the failures of the backend.                              *)
(***************************************************************************)
\* C27: no get and no set ends by raising to its caller: a get returns a
\* value or nothing and a set returns, whatever the backend call did.
NoBackendErrorRaised == ev.type \notin {"getThrew", "setThrew"}

\* C28: when the backend call of a set, a removeKey or a removeSection has
\* failed and nothing else has changed the store meanwhile, the change the
\* operation made to the cache is in place: the value set is what the cache
\* returns, the key removed, or every key of the section removed, is not
\* cached.
NoRollback ==
  /\ (ev.type = "setDone" /\ ev.flush = "failed" /\ ev.cc /\ ev.clean)
       => cachedValue(store, useCache, ev.s, ev.k) = ev.v
  /\ (ev.type = "removeKeyThrew" /\ ev.clean)
       => cachedValue(store, useCache, ev.s, ev.k) = Undefined
  /\ (ev.type = "removeSectionThrew" /\ ev.clean)
       => \A key \in Names : cachedValue(store, useCache, ev.s, key) = Undefined

\* C28 witness: the delete of a removeKey of a cached key has failed and the
\* key is not cached
NoRollbackWitness ==
  /\ ev.type = "removeKeyThrew" /\ ev.clean
  /\ ev.res # Undefined
  /\ cachedValue(store, useCache, ev.s, ev.k) = Undefined

\* C28, the case of set: the bulk write of a set has failed and the value
\* set is cached
NoRollbackWitnessSet ==
  /\ ev.type = "setDone" /\ ev.flush = "failed" /\ ev.cc /\ ev.clean
  /\ cachedValue(store, useCache, ev.s, ev.k) = ev.v

(***************************************************************************)
(* Properties of the values.                                               *)
(***************************************************************************)
\* C29: for the values 0, false, '' and null, the get that directly follows
\* a set(section, key, v) returns v; a get that reads the backend returns the
\* value of the document it finds, whatever the value, and leaves it in the
\* cache; and each of these results differs from the result of a get of a
\* key that was never set, which is undefined.
MissIsNoValue ==
  /\ (ev.type = "getDone" /\ ev.rt # NoRT /\ ev.rt.cc)
       => (ev.res = ev.rt.v /\ ev.res \in Falsy)
  /\ (ev.type = "getDone" /\ ev.flush = "backend" /\ <<ev.s, ev.k>> \in DOMAIN db)
       => /\ ev.res = db[<<ev.s, ev.k>>] /\ ev.res \in Falsy
          /\ cachedValue(store, useCache, ev.s, ev.k) = ev.res
  /\ (ev.type = "getDone" /\ ev.k = NeverSet)
       => (ev.res = Undefined /\ ev.res \notin Falsy)

\* C29 witness: the get that directly follows a set of null has returned
\* null, with the backend attached and without
MissIsNoValueWitness ==
  /\ ev.type = "getDone" /\ ev.rt # NoRT /\ ev.rt.cc
  /\ ev.res = "null"

\* C29, the backend: a get has read the empty string from the backend
MissIsNoValueWitnessBackend ==
  /\ ev.type = "getDone" /\ ev.flush = "backend"
  /\ ev.res = ""

\* C29, the miss: a get of a key never set has returned undefined after a
\* set of a value of Falsy
MissIsNoValueWitnessMiss ==
  /\ ev.type = "getDone" /\ ev.k = NeverSet
  /\ written # EmptyObj

(***************************************************************************)
(* Properties of the store without a backend.                              *)
(***************************************************************************)
BackendCalls == { "findOne", "bulkWrite", "deleteOne", "deleteMany" }

\* C30: while no collection is attached, the write queue is empty, no write
\* was ever enqueued, no bulk write issued and no backend call is pending;
\* every get, set, removeKey and removeSection has returned in the step of
\* its call, without raising; and no step changes the collection.
NoBackendNoQueue ==
  /\ [](~mongoCollection
          => /\ mongoWriteQueue = <<>> /\ enqueued = {} /\ issued = 0
             /\ \A id \in DOMAIN tasks : tasks[id].pc \notin BackendCalls
             /\ ev.type \notin { "getCall", "setCall", "removeKeyCall",
                                 "removeSectionCall", "getThrew", "setThrew",
                                 "removeKeyThrew", "removeSectionThrew" })
  /\ [][~mongoCollection => db' = db]_vars

\* C30 witness: with no collection attached a set has returned, its value is
\* cached and the queue is empty
NoBackendNoQueueWitness ==
  /\ ~mongoCollection
  /\ ev.type = "setDone" /\ ev.cc
  /\ cachedValue(store, useCache, ev.s, ev.k) = ev.v
  /\ mongoWriteQueue = <<>>

(***************************************************************************)
(* Properties of the switch to the bounded store.                          *)
(***************************************************************************)
\* This step is the end of a useMongo that has replaced the plain object by
\* the LRU, nothing else having changed the store since useMongo was called
\* (ev'.id is the call that returns)
SwitchedToLRU ==
  /\ ~useCache /\ useCache'
  /\ ev'.id \in DOMAIN tasks /\ tasks[ev'.id].clean

\* C31: every (section, key) the store held a value of when useMongo was
\* called is held with the same value, by the cache or by the backend get
\* falls back to, when useMongo has returned, and the next save writes it.
AttachKeepsData ==
  [][SwitchedToLRU =>
       \A p \in Names \X Names :
          LET before == cachedValue(store, useCache, p[1], p[2])
          IN before # Undefined
               => /\ \/ cachedValue(store', useCache', p[1], p[2]) = before
                     \/ (mongoCollection' /\ FindOne(db', p[1], p[2]) = before)
                  /\ PlainGet(jsonData(store', useCache'), p[1], p[2]) = before]_vars

(***************************************************************************)
(* Properties of the bulk request.                                         *)
(***************************************************************************)
\* The places of the bulk request ops that write (section, key)
OpsOf(ops, section, key) ==
  { i \in 1..Len(ops) : ops[i].section = section /\ ops[i].key = key }

\* The last of a non-empty set of places
LastOf(places) == CHOOSE i \in places : \A j \in places : j <= i

\* C32: the bulk request of a flush lists the queued writes one for one in
\* the order of the queue, which is the order in which they were issued;
\* and when it succeeds the backend holds, for every (section, key) it
\* writes, the value of the last of its writes of that key, and what it held
\* before for the others.
WholeQueueInOrder ==
  /\ [](ev.flush = "started"
          => /\ Len(ev.ops) = Len(ev.queue)
             /\ \A i \in 1..Len(ev.ops) :
                  /\ ev.ops[i].section = ev.queue[i].section
                  /\ ev.ops[i].key = ev.queue[i].key
                  /\ ev.ops[i].value = ev.queue[i].value
                  /\ \A j \in 1..Len(ev.ops) : i < j => ev.queue[i].id < ev.queue[j].id
             /\ IdsOf(ev.queue) = IdsOf(ev.ops))
  /\ [][(ev'.type = "setDone" /\ ev'.flush = "ok")
          => \A section \in Sections, key \in Keys :
               LET places == OpsOf(ev'.ops, section, key)
               IN FindOne(db', section, key) =
                    IF places = {} THEN FindOne(db, section, key)
                    ELSE ev'.ops[LastOf(places)].value]_vars

\* C32 witness: a bulk write that held several writes of two keys has
\* succeeded
WholeQueueInOrderWitness ==
  /\ ev.type = "setDone" /\ ev.flush = "ok"
  /\ Len(ev.ops) >= FlushThreshold
  /\ \A key \in Keys : Cardinality(OpsOf(ev.ops, <<"u">>, key)) >= 2
  /\ \E key \in Keys : FindOne(db, <<"u">>, key) = "v1"
  /\ \E key \in Keys : FindOne(db, <<"u">>, key) = "v2"

(***************************************************************************)
(* Properties of the mode of the store.                                    *)
(***************************************************************************)
\* A call of useMongo has not returned yet
UseMongoPending == \E id \in DOMAIN tasks : tasks[id].kind = "useMongo"

\* C33: while no useMongo is in progress, the store is the LRU exactly when
\* a collection is attached.
ModeMatchesBackend == ~UseMongoPending => (useCache <=> mongoCollection)

(***************************************************************************)
(* Properties of the load at startup.                                      *)
(***************************************************************************)
\* C34: when the load the constructor started has merged the file, every
\* (section, key) that a set has cached, and that was cached with the value
\* of the set before the merge, is still cached with that value.
InitialLoadKeepsNewer ==
  (ev.type = "loadDone" /\ ev.id = 0 /\ ev.res = "loaded")
    => \A p \in DOMAIN written :
         ev.snap[p] = written[p]
           => cachedValue(store, useCache, p[1], p[2]) = written[p]

(***************************************************************************)
(* Properties of the set that is not cached.                               *)
(***************************************************************************)
\* C36: the get that directly follows a completed set(section, key, v2,
\* false) does not return the other value that an earlier cacheable set of
\* the key has cached; and with no collection attached it returns v2.
NonCacheableHidesOlder ==
  (ev.type = "getDone" /\ ev.rt # NoRT /\ ~ev.rt.cc)
    => /\ (<<ev.s, ev.k>> \in DOMAIN written /\ written[<<ev.s, ev.k>>] # ev.rt.v)
            => ev.res # written[<<ev.s, ev.k>>]
       /\ ~mongoCollection => ev.res = ev.rt.v

(***************************************************************************)
(* Properties of a get that overlaps a set or a removal.                   *)
(***************************************************************************)
\* C35: when a get that has read the backend returns, a key that the cache
\* holds with the value of a set (the get missed the cache when it was
\* called, so the set ran while the get waited) is still cached with that
\* value, and a key whose removeKey has returned while the get waited is
\* still not cached.
NoStaleFill ==
  [][GetRead =>
       LET p == <<ev'.s, ev'.k>>
           cached == cachedValue(store, useCache, ev'.s, ev'.k)
       IN /\ (p \in DOMAIN written /\ cached = written[p])
               => cachedValue(store', useCache, ev'.s, ev'.k) = written[p]
          /\ (p \in removed /\ ~tasks[ev'.id].clean /\ cached = Undefined)
               => cachedValue(store', useCache, ev'.s, ev'.k) = Undefined]_vars

(***************************************************************************)
(* Properties of the cache keys.                                           *)
(***************************************************************************)
\* This step is the synchronous part of a call of the given kinds
Called(types) == nCalls' # nCalls /\ ev'.type \in types

\* C37: with the LRU as the store, a set of one (section, key) gives no
\* other pair a value (another pair keeps its cached value, or loses it to
\* the capacity), and removeSection(s) leaves the cached value of every
\* pair of another section as it was.
DistinctEntries ==
  [][(useCache /\ useCache') =>
       /\ Called({"setCall", "setDone"}) =>
            \A q \in Sections \X Keys :
               q # <<ev'.s, ev'.k>>
                 => cachedValue(store', useCache, q[1], q[2])
                      \in { cachedValue(store, useCache, q[1], q[2]), Undefined }
       /\ Called({"removeSectionCall", "removeSectionDone"}) =>
            \A q \in Sections \X Keys :
               q[1] # ev'.s
                 => cachedValue(store', useCache, q[1], q[2])
                      = cachedValue(store, useCache, q[1], q[2])]_vars

(***************************************************************************)
(* Properties of the reads after an eviction.                              *)
(***************************************************************************)
\* C38: with the LRU as the store and no backend call failed, every get of
\* a (section, key) that a set has cached, and that was not removed since,
\* returns the value of the last such set, whether or not the entry is
\* still in the cache.
ReadYourWrites ==
  (/\ ev.type = "getDone" /\ useCache /\ ~backendFailed
   /\ <<ev.s, ev.k>> \in DOMAIN written)
    => ev.res = written[<<ev.s, ev.k>>]

(***************************************************************************)
(* Properties of a reload that fails.                                      *)
(***************************************************************************)
\* The file exists and its text cannot be read or cannot be parsed
Unloadable == file.kind \in {"corrupt", "unreadable", "truncated", "mixed"}

\* This step is the end of the readFile of a reload of the watcher
ReloadRead ==
  /\ ev'.id \in ReloadIds \cap DOMAIN tasks
  /\ tasks[ev'.id].kind = "load" /\ tasks[ev'.id].pc = "readFile"
  /\ ev'.type \in {"loadDone", "loadSaves"}

\* C39: when a reload of the watcher finds the file unreadable or
\* unparseable, the load ends with the error reported and has changed
\* neither the store nor the write queue nor the file, and has started no
\* save.
FailedReloadKeeps ==
  [][(ReloadRead /\ Unloadable) =>
       /\ ev'.type = "loadDone" /\ ev'.res = "error"
       /\ store' = store
       /\ mongoWriteQueue' = mongoWriteQueue
       /\ file' = file
       /\ ev'.id \notin DOMAIN tasks'
       /\ \A id \in DOMAIN tasks' : tasks'[id] = tasks[id]]_vars

\* C39 witness: a reload has failed on a file that another writer left
\* unparseable, with a value in the store
FailedReloadKeepsWitness ==
  /\ ev.type = "loadDone" /\ ev.res = "error" /\ ev.id \in ReloadIds
  /\ file = FileCorrupt /\ nEdits > 0
  /\ written # EmptyObj
  /\ \E p \in DOMAIN written : cachedValue(store, useCache, p[1], p[2]) = written[p]

(***************************************************************************)
(* Frame of the calls on the plain store.                                  *)
(***************************************************************************)
\* Every section but s is there or not as before and holds what it held,
\* and in section s every key but those of ks reads as before
SameBut(s, ks) ==
  /\ \A t \in (DOMAIN store \cup DOMAIN store') \ {s} :
       t \in DOMAIN store /\ t \in DOMAIN store' /\ store'[t] = store[t]
  /\ \A k \in (KeysIn(store, s) \cup KeysIn(store', s)) \ ks :
       PlainGet(store', s, k) = PlainGet(store, s, k)

\* C40: with the plain object as the store and no backend attached, set and
\* removeKey of (s, k) change nothing but the entry (s, k) and whether
\* section s exists, removeSection(s) changes nothing outside section s,
\* get changes nothing, and none of them touches the write queue, the
\* collection or the file.
PlainFrame ==
  [][(~useCache /\ ~mongoCollection) =>
       /\ Called({"setDone", "removeKeyDone"}) => SameBut(ev'.s, {ev'.k})
       /\ Called({"removeSectionDone"})
            => SameBut(ev'.s, KeysIn(store, ev'.s)) /\ ev'.s \notin DOMAIN store'
       /\ Called({"getDone"}) => store' = store
       /\ Called({"setDone", "removeKeyDone", "removeSectionDone", "getDone"})
            => /\ mongoWriteQueue' = mongoWriteQueue
               /\ db' = db /\ file' = file
               /\ useCache' = useCache /\ mongoCollection' = mongoCollection]_vars

\* C40 witness: a set has just stored its value in a section of the plain
\* store that holds another key, with no backend attached
PlainFrameWitness ==
  /\ ~useCache /\ ~mongoCollection
  /\ ev.type = "setDone" /\ PlainGet(store, ev.s, ev.k) = ev.v
  /\ \E k \in KeysIn(store, ev.s) \ {ev.k} : PlainGet(store, ev.s, k) # Undefined
  /\ \E t \in DOMAIN store : t # ev.s
====
